---- MODULE Spec2Model ----
(***************************************************************************)
(* Model of data-modeling-with-postgres/etl.py: main, process_data,        *)
(* process_song_file and process_log_file, run against one PostgreSQL      *)
(* connection (psycopg2, autocommit off).  Every cur.execute, the          *)
(* conn.commit and each pandas block between two database calls is one     *)
(* step of the single thread of control, whose position is pc.             *)
(***************************************************************************)
EXTENDS Integers, Sequences, FiniteSets, TLC

\* ----------------------------------------------------------------- bounds
MaxSongFiles == 2
MaxLogFiles == 1
MaxRows == 2

MaxFiles(c) == IF c = "song" THEN MaxSongFiles ELSE MaxLogFiles

\* ------------------------------------------------------------ input values
None == "None"
NextSong == "NextSong"
Pages == {NextSong, "Home"}
UserIds == {"", "u1"}
Levels == {"free", "paid"}

\* the line a song file can carry (a file can repeat it)
SongRows ==
  { [song_id |-> "S1", title |-> "t1", artist_id |-> "A1",
     artist_name |-> "n1", duration |-> 1] }

\* (song, artist, length) of a log event: those of song S1, and the same with
\* the length off
LogSongs == { <<"t1", "n1", 1>>, <<"t1", "n1", 2>> }

\* ts of a log event, in units of one hour since the epoch
Timestamps == {26}

LogRows ==
  { [userId |-> u, page |-> p, level |-> l, song |-> s[1], artist |-> s[2],
     length |-> s[3], ts |-> t] :
       u \in UserIds, p \in Pages, l \in Levels, s \in LogSongs, t \in Timestamps }

NoRow == [userId |-> None]

\* what pd.read_json(filepath, lines=True) can return: a file holds one JSON
\* object per line and at least one line (what pandas raises on an empty or
\* malformed file is outside this model)
Lines(S, n) == UNION { [1..k -> S] : k \in 1..n }

\* main calls process_data for the song category, then for the log category
Categories_swapped == <<"log", "song">>
Categories == <<"song", "log">>

\* outcomes of one cur.execute: it returns, or it raises psycopg2.Error either
\* before the statement reaches the server (the open transaction stays usable)
\* or from the server (PostgreSQL marks the open transaction aborted)
Ok == "ok"
ClientError == "client_error"
ServerError == "server_error"

VARIABLES
  pc,         \* position of the thread of control
  conn,       \* "unbound" | "open" | "closed"
  cur,        \* "unbound" | "open" | "closed"
  raised,     \* the exception that ended the run, or None
  rootExists, \* category -> whether its root directory exists
  cat,        \* index into Categories of the running process_data call
  num_files,  \* len(all_files) of the running process_data call, -1 before
              \* its discovery
  i,          \* enumerate(all_files, 1) index of the file being processed
  df,         \* rows of the file being processed (after the filters)
  idx,        \* index in df of the row of the running loop
  results,    \* value of cur.fetchone() for the current row
  db,         \* committed contents of the five tables
  tx,         \* contents as seen by the open transaction
  txAborted,  \* the open transaction is in PostgreSQL's aborted state
  commits,    \* number of conn.commit() calls of the running process_data call
  lastOp,     \* the database call made by the last step
  atCommit,   \* the transaction's contents when the last step called conn.commit()
  attempts,   \* number of write executes issued for the current file
  laterLevel  \* userId -> level of the file's last NextSong row, for the
              \* users with two NextSong rows of different levels in the file

vars == << pc, conn, cur, raised, rootExists, cat, num_files, i, df, idx, results,
           db, tx, txAborted, commits, lastOp, atCommit, attempts, laterLevel >>

\* the five tables as sets of rows; the run starts on empty tables
EmptyDb == [songs |-> {}, artists |-> {}, time |-> {}, users |-> {}, songplays |-> {}]

\* a database call: the statement's table, the row of df it is made for, the
\* parameters passed to execute, and what the call did
NoOp == [op |-> "none", table |-> None, row |-> NoRow, rec |-> NoRow, outcome |-> None]

Op(o, t, r, params, out) ==
  [op |-> o, table |-> t, row |-> r, rec |-> params, outcome |-> out]

\* ------------------------------------------------------- the datastore
\* what one cur.execute can do, given the state of the open transaction:
\* once the transaction is aborted the server rejects every statement
ExecOutcomes(aborted) ==
  IF aborted THEN {ClientError, ServerError} ELSE {Ok, ClientError, ServerError}

\* song_table_insert: keyed by song_id, a conflicting row is ignored
InsertSong(t, rec) ==
  IF \E s \in t.songs : s.song_id = rec.song_id THEN t
  ELSE [t EXCEPT !.songs = @ \cup {rec}]

\* artist_table_insert: keyed by artist_id, a conflicting row is ignored
InsertArtist(t, rec) ==
  IF \E a \in t.artists : a.artist_id = rec.artist_id THEN t
  ELSE [t EXCEPT !.artists = @ \cup {rec}]

\* time_table_insert
InsertTime(t, rec) == [t EXCEPT !.time = @ \cup {rec}]

\* user_table_insert: upsert keyed by user_id, the level is overwritten
UpsertUser(t, rec) ==
  [t EXCEPT !.users = {u \in @ : u.user_id # rec.user_id} \cup {rec}]

\* songplay_table_insert
InsertSongplay(t, rec) == [t EXCEPT !.songplays = @ \cup {rec}]

\* song_select: the (song_id, artist_id) of the song+artist pairs whose title,
\* artist name and duration equal the three parameters
SongSelect(t, song, artist, length) ==
  { <<p[1].song_id, p[2].artist_id>> :
      p \in { q \in t.songs \X t.artists :
                 /\ q[1].artist_id = q[2].artist_id
                 /\ q[1].title = song
                 /\ q[2].name = artist
                 /\ q[1].duration = length } }

\* cur.fetchone(): one row of the result, or None when it is empty
NoResult == << >>
FetchOne(rows) == IF rows = {} THEN {NoResult} ELSE rows

\* conn.commit(): COMMIT makes the transaction's writes durable; on an aborted
\* transaction PostgreSQL answers COMMIT with ROLLBACK
CommitResult(committed, pending, aborted) == IF aborted THEN committed ELSE pending

\* ------------------------------------------------- record shaping (pandas)
\* Columns that are only passed through to the statement (year, location,
\* latitude, longitude, firstName, lastName, gender, sessionId, userAgent)
\* are left out of the rows and of the records.
song_data(row) ==
  [song_id |-> row.song_id, title |-> row.title, artist_id |-> row.artist_id,
   duration |-> row.duration]

artist_data(row) == [artist_id |-> row.artist_id, name |-> row.artist_name]

\* df[df['userId'].isin([''])]
FilterUserId(rows) == SelectSeq(rows, LAMBDA r : r.userId \in {""})

\* df[df.page == 'NextSong']
FilterPage_none(rows) == rows
FilterPage(rows) == SelectSeq(rows, LAMBDA r : r.page = NextSong)

\* pd.to_datetime(ts) and the calendar columns taken from it
time_data(row) ==
  [start_time |-> row.ts, hour |-> row.ts % 24, day |-> 1 + (row.ts \div 24)]

user_data(row) == [user_id |-> row.userId, level |-> row.level]

\* songid, artistid = results if results else None, None
ResolveIds_swapped(res) == IF res # NoResult THEN <<None, None>> ELSE <<"S1", "A1">>
ResolveIds(res) == IF res # NoResult THEN res ELSE <<None, None>>

songplay_data(row, ids) ==
  [start_time |-> row.ts, user_id |-> row.userId, level |-> row.level,
   song_id |-> ids[1], artist_id |-> ids[2]]

\* os.walk of a root that does not exist yields nothing and raises nothing
WalkRaises_strict(exists) == ~exists
WalkRaises(exists) == FALSE

\* the level of the last NextSong row of user u in the raw file, when the
\* file's NextSong rows of u carry two different levels
LaterLevel(raw, u) ==
  LET ev == SelectSeq(raw, LAMBDA r : r.page = NextSong /\ r.userId = u)
  IN IF \E j, k \in 1..Len(ev) : ev[j].level # ev[k].level
     THEN ev[Len(ev)].level ELSE None


Init ==
  /\ pc = "connect"
  /\ conn = "unbound"
  /\ cur = "unbound"
  /\ raised = None
  /\ rootExists \in [{"song", "log"} -> BOOLEAN]
  /\ cat = 1
  /\ num_files = -1
  /\ i = 0
  /\ df = << >>
  /\ idx = 1
  /\ results = NoResult
  /\ db = EmptyDb
  /\ tx = EmptyDb
  /\ txAborted = FALSE
  /\ commits = 0
  /\ lastOp = NoOp
  /\ atCommit = EmptyDb
  /\ attempts = 0
  /\ laterLevel = [u \in UserIds |-> None]

\* ------------------------------------------------------------------ main
\* conn = psycopg2.connect(...); a psycopg2.Error is printed and main goes on
Connect ==
  /\ pc = "connect"
  /\ \E ok \in BOOLEAN : conn' = IF ok THEN "open" ELSE "unbound"
  /\ pc' = "cursor"
  /\ lastOp' = NoOp
  /\ UNCHANGED << cur, raised, rootExists, cat, num_files, i, df, idx, results, db, tx,
                  txAborted, commits, atCommit, attempts, laterLevel >>

\* cur = conn.cursor(): with conn unbound the name lookup raises
\* UnboundLocalError, which no handler catches; a psycopg2.Error is printed
Cursor ==
  /\ pc = "cursor"
  /\ IF conn = "unbound"
     THEN /\ raised' = "UnboundLocalError"
          /\ pc' = "fatal"
          /\ cur' = cur
     ELSE /\ \E ok \in BOOLEAN : cur' = IF ok THEN "open" ELSE "unbound"
          /\ pc' = "discover"
          /\ raised' = raised
  /\ lastOp' = NoOp
  /\ UNCHANGED << conn, rootExists, cat, num_files, i, df, idx, results, db, tx,
                  txAborted, commits, atCommit, attempts, laterLevel >>

\* where process_data goes when its file loop is over
AfterFiles == "return"

\* process_data(cur, conn, filepath, func) up to the file loop: the call reads
\* the name cur (UnboundLocalError when unbound), then walks the root
Discover ==
  /\ pc = "discover"
  /\ LET c == Categories[cat] IN
       IF cur = "unbound"
       THEN /\ raised' = "UnboundLocalError"
            /\ pc' = "fatal"
            /\ UNCHANGED << num_files, i, commits >>
       ELSE IF WalkRaises(rootExists[c])
       THEN /\ raised' = "PathNotFound"
            /\ pc' = "fatal"
            /\ UNCHANGED << num_files, i, commits >>
       ELSE /\ \E n \in (IF rootExists[c] THEN 0..MaxFiles(c) ELSE {0}) :
                 /\ num_files' = n
                 /\ pc' = IF n = 0 THEN AfterFiles ELSE "read"
            /\ i' = 0
            /\ commits' = 0
            /\ raised' = raised
  /\ lastOp' = NoOp
  /\ UNCHANGED << conn, cur, rootExists, cat, df, idx, results, db, tx, txAborted,
                  atCommit, attempts, laterLevel >>

\* the position after the last row of a loop, or the loop's next iteration
AfterRow_commit(k, n, again, after) == "commit"
AfterRow(k, n, again, after) == IF k < n THEN again ELSE after

\* ----------------------------------------------------- process_song_file
\* for i, datafile in enumerate(all_files, 1): func(cur, datafile) begins:
\* pd.read_json(filepath, lines=True)
ReadSongFile ==
  /\ pc = "read"
  /\ Categories[cat] = "song"
  /\ i' = i + 1
  /\ \E rows \in Lines(SongRows, MaxRows) :
       /\ df' = rows
       /\ pc' = AfterRow(0, Len(rows), "song_insert", "commit")
  /\ idx' = 1
  /\ lastOp' = NoOp
  /\ UNCHANGED << conn, cur, raised, rootExists, cat, num_files, results, db, tx,
                  txAborted, commits, atCommit, attempts, laterLevel >>

\* except psycopg2.Error as e: print(...): the handler of every database call
\* of the two file functions catches whatever the call raises
Handled_uncaught(out) == out = Ok
Handled(out) == TRUE

\* where control goes after a database call: on, or out of main when the
\* call's exception is not caught
After(out, next) == IF Handled(out) THEN next ELSE "fatal"

\* one cur.execute of a write statement inside try/except psycopg2.Error
Execute(table, row, rec, out, pending) ==
  /\ lastOp' = Op("write", table, row, rec, out)
  /\ raised' = IF Handled(out) THEN raised ELSE "psycopg2.Error"
  /\ attempts' = attempts + 1
  /\ txAborted' = (txAborted \/ out = ServerError)
  /\ tx' = IF out = Ok THEN pending ELSE tx

\* cur.execute(song_table_insert, song_data)
SongInsert ==
  /\ pc = "song_insert"
  /\ \E out \in ExecOutcomes(txAborted) :
       /\ Execute("songs", df[idx], song_data(df[idx]), out,
                  InsertSong(tx, song_data(df[idx])))
       /\ pc' = After(out, "artist_insert")
  /\ UNCHANGED << conn, cur, rootExists, cat, num_files, i, df, idx, results,
                  db, commits, atCommit, laterLevel >>

\* cur.execute(artist_table_insert, artist_data)
ArtistInsert ==
  /\ pc = "artist_insert"
  /\ \E out \in ExecOutcomes(txAborted) :
       /\ Execute("artists", df[idx], artist_data(df[idx]), out,
                  InsertArtist(tx, artist_data(df[idx])))
       /\ pc' = After(out, AfterRow(idx, Len(df), "song_insert", "commit"))
  /\ idx' = idx + 1
  /\ UNCHANGED << conn, cur, rootExists, cat, num_files, i, df, results,
                  db, commits, atCommit, laterLevel >>

\* ------------------------------------------------------ process_log_file
\* pd.read_json, the userId filter, the page filter, the ts conversion and the
\* time_df and user_df frames
ReadLogFile ==
  /\ pc = "read"
  /\ Categories[cat] = "log"
  /\ i' = i + 1
  /\ \E raw \in Lines(LogRows, MaxRows) :
       /\ df' = FilterPage(FilterUserId(raw))
       /\ pc' = AfterRow(0, Len(df'), "time_insert", "commit")
       /\ laterLevel' = [u \in UserIds |-> LaterLevel(raw, u)]
  /\ idx' = 1
  /\ lastOp' = NoOp
  /\ UNCHANGED << conn, cur, raised, rootExists, cat, num_files, results, db, tx,
                  txAborted, commits, atCommit, attempts >>

\* for i, row in time_df.iterrows(): cur.execute(time_table_insert, list(row))
TimeInsert ==
  /\ pc = "time_insert"
  /\ \E out \in ExecOutcomes(txAborted) :
       /\ Execute("time", df[idx], time_data(df[idx]), out,
                  InsertTime(tx, time_data(df[idx])))
       /\ pc' = After(out, AfterRow(idx, Len(df), "time_insert", "user_insert"))
  /\ idx' = IF idx < Len(df) THEN idx + 1 ELSE 1
  /\ UNCHANGED << conn, cur, rootExists, cat, num_files, i, df, results,
                  db, commits, atCommit, laterLevel >>

\* for i, row in user_df.iterrows(): cur.execute(user_table_insert, row)
UserInsert ==
  /\ pc = "user_insert"
  /\ \E out \in ExecOutcomes(txAborted) :
       /\ Execute("users", df[idx], user_data(df[idx]), out,
                  UpsertUser(tx, user_data(df[idx])))
       /\ pc' = After(out, AfterRow(idx, Len(df), "user_insert", "song_select"))
  /\ idx' = IF idx < Len(df) THEN idx + 1 ELSE 1
  /\ UNCHANGED << conn, cur, rootExists, cat, num_files, i, df, results,
                  db, commits, atCommit, laterLevel >>

\* where the songplay loop goes after cur.execute(song_select, ...): on to the
\* insert of the same row, or, from the outer except, to the next row
AfterSelect_nulls(out, k, n) == "songplay_insert"
AfterSelect(out, k, n) ==
  IF out = Ok THEN "songplay_insert" ELSE AfterRow(k, n, "song_select", "commit")

\* cur.execute(song_select, (row.song, row.artist, row.length)); cur.fetchone()
SongSelectStep ==
  /\ pc = "song_select"
  /\ \E out \in ExecOutcomes(txAborted) :
       /\ lastOp' = Op("select", "songs", df[idx],
                       <<df[idx].song, df[idx].artist, df[idx].length>>, out)
       /\ raised' = IF Handled(out) THEN raised ELSE "psycopg2.Error"
       /\ txAborted' = (txAborted \/ out = ServerError)
       /\ results' \in IF out = Ok
                       THEN FetchOne(SongSelect(tx, df[idx].song, df[idx].artist,
                                                df[idx].length))
                       ELSE {NoResult}
       /\ pc' = After(out, AfterSelect(out, idx, Len(df)))
       /\ idx' = IF pc' = "songplay_insert" THEN idx ELSE idx + 1
  /\ UNCHANGED << conn, cur, rootExists, cat, num_files, i, df, db, tx,
                  commits, atCommit, attempts, laterLevel >>

\* cur.execute(songplay_table_insert, songplay_data)
SongplayInsert ==
  /\ pc = "songplay_insert"
  /\ LET rec == songplay_data(df[idx], ResolveIds(results)) IN
       \E out \in ExecOutcomes(txAborted) :
         /\ Execute("songplays", df[idx], rec, out, InsertSongplay(tx, rec))
         /\ pc' = After(out, AfterRow(idx, Len(df), "song_select", "commit"))
  /\ idx' = idx + 1
  /\ results' = NoResult
  /\ UNCHANGED << conn, cur, rootExists, cat, num_files, i, df,
                  db, commits, atCommit, laterLevel >>

\* ---------------------------------------------------------- process_data
\* conn.commit() after func(cur, datafile) returned; the progress line
Commit ==
  /\ pc = "commit"
  /\ db' = CommitResult(db, tx, txAborted)
  /\ tx' = db'
  /\ txAborted' = FALSE
  /\ atCommit' = tx
  /\ commits' = commits + 1
  /\ lastOp' = Op("commit", None, NoRow, NoRow, Ok)
  /\ pc' = "progress"
  /\ df' = << >>
  /\ idx' = 1
  /\ UNCHANGED << conn, cur, raised, rootExists, cat, num_files, i, results,
                  attempts, laterLevel >>

\* print('{}/{} files processed.'.format(i, num_files)) and the loop's next turn
Progress ==
  /\ pc = "progress"
  /\ pc' = AfterRow(i, num_files, "read", AfterFiles)
  /\ lastOp' = NoOp
  /\ atCommit' = EmptyDb
  /\ laterLevel' = [u \in UserIds |-> None]
  /\ attempts' = 0
  /\ UNCHANGED << conn, cur, raised, rootExists, cat, num_files, i, df, idx, results,
                  db, tx, txAborted, commits >>

\* process_data returns to main: the next category, or the two close() calls
Return ==
  /\ pc = "return"
  /\ IF cat < Len(Categories)
     THEN /\ cat' = cat + 1
          /\ pc' = "discover"
          /\ num_files' = -1
          /\ UNCHANGED << conn, cur >>
     ELSE /\ cat' = cat
          /\ pc' = "completed"
          /\ cur' = "closed"
          /\ conn' = "closed"
          /\ num_files' = num_files
  /\ lastOp' = NoOp
  /\ UNCHANGED << raised, rootExists, i, df, idx, results, db, tx,
                  txAborted, commits, atCommit, attempts, laterLevel >>

Next ==
  \/ Connect
  \/ Cursor
  \/ Discover
  \/ ReadSongFile
  \/ SongInsert
  \/ ArtistInsert
  \/ ReadLogFile
  \/ TimeInsert
  \/ UserInsert
  \/ SongSelectStep
  \/ SongplayInsert
  \/ Commit
  \/ Progress
  \/ Return

Spec == Init /\ [][Next]_vars

\* ------------------------------------------------------------ vocabulary
Tables == {"songs", "artists", "time", "users", "songplays"}

WriteTo(tables) == lastOp.op = "write" /\ lastOp.table \in tables

\* the positions inside func(cur, datafile)
FileSteps ==
  {"song_insert", "artist_insert", "time_insert", "user_insert", "song_select",
   "songplay_insert", "commit"}

\* the category whose process_data call is running
Running == Categories[cat]

\* the process_data call of category c has returned
Finished(c) ==
  \E k \in 1..Len(Categories) : Categories[k] = c /\ (k < cat \/ pc = "completed")

\* the process_data call of category c has walked its root
Discovered(c) ==
  \/ Finished(c)
  \/ Running = c /\ num_files # -1

\* -------------------------------------------------------------------- C1
\* C1: no row whose userId is the empty string causes a write to the users
\* table or to the songplays table, and no such row is persisted in either.
C1_NoEmptyUserWritten ==
  /\ WriteTo({"users", "songplays"}) => lastOp.row.userId # ""
  /\ \A u \in db.users : u.user_id # ""
  /\ \A p \in db.songplays : p.user_id # ""

\* -------------------------------------------------------------------- C2
\* C2: every write issued to the time table and to the songplays table comes
\* from a row whose page is "NextSong".
C2_OnlyNextSongRows ==
  WriteTo({"time", "songplays"}) => lastOp.row.page = NextSong

\* a songplay and a time row were written in one file and the execute returned
C2_Witness ==
  /\ WriteTo({"songplays"})
  /\ lastOp.outcome = Ok
  /\ lastOp.row.page = NextSong
  /\ tx.time # {}

\* -------------------------------------------------------------------- C3
\* the number of write executes a file with n surviving rows calls for
WritesPerRow == IF Running = "song" THEN 2 ELSE 3

\* C3: a failed write does not abort the file: when the file's commit is
\* reached every record's writes have been attempted, and after the commit
\* every write made for the file is part of the committed contents.
C3_FailureKeepsTheFile ==
  /\ pc = "commit" => attempts = WritesPerRow * Len(df)
  /\ lastOp.op = "commit" => \A t \in Tables : atCommit[t] \subseteq db[t]

\* -------------------------------------------------------------------- C4
\* C4: process_data commits once per file at the file boundary: the writes of
\* file i are made after exactly i-1 commits, the commit of file i is called
\* with all its rows iterated, and a call that returns has made num_files
\* commits.
C4_CommitPerFile ==
  /\ pc \in FileSteps => commits = i - 1
  /\ pc = "commit" => idx = Len(df) + 1
  /\ pc = "progress" => commits = i
  /\ pc \in {"return", "completed"} => commits = num_files /\ i = num_files

\* a call over two files has returned and left committed rows
C4_Witness ==
  /\ pc = "return"
  /\ num_files = 2
  /\ commits = 2
  /\ db.songs # {}

\* -------------------------------------------------------------------- C5
\* C5: a songplay is written with the ids of a stored song+artist pair whose
\* title, artist name and duration equal the row's song, artist and length
\* when there is one, and with both ids null when there is none.
C5_SongplayIds ==
  WriteTo({"songplays"}) =>
    LET m == SongSelect(tx, lastOp.row.song, lastOp.row.artist, lastOp.row.length)
        ids == <<lastOp.rec.song_id, lastOp.rec.artist_id>>
    IN /\ m # {} => ids \in m /\ ids[1] # None /\ ids[2] # None
       /\ m = {} => ids = <<None, None>>

\* one file has written a resolved songplay and an unresolved one
C5_Witness ==
  /\ WriteTo({"songplays"})
  /\ \E a, b \in tx.songplays : a.song_id = "S1" /\ a.artist_id = "A1" /\ b.song_id = None

\* -------------------------------------------------------------------- C6
\* C6 as stated: after a failed lookup the row's songplay is still written,
\* with both ids null.
C6_FailedLookupWritesNulls ==
  (lastOp.op = "select" /\ lastOp.outcome # Ok) =>
    pc = "songplay_insert" /\ ResolveIds(results) = <<None, None>>

\* C6 amended: a failed lookup is not fatal, no songplay write is issued for
\* its row, and the loop is at the next row or the file is over.
C6_FailedLookupSkipsRow ==
  (lastOp.op = "select" /\ lastOp.outcome # Ok) =>
    /\ raised = None
    /\ pc \in {"song_select", "commit"}
    /\ df[idx - 1] = lastOp.row
    /\ pc = "song_select" <=> idx <= Len(df)

\* a lookup failed and the loop stands at the next row
C6_Witness ==
  /\ lastOp.op = "select"
  /\ lastOp.outcome # Ok
  /\ pc = "song_select"
  /\ idx = 2

\* -------------------------------------------------------------------- C7
\* C7: after the commit of a log file holding two NextSong rows of one user
\* with different levels, that user's record exists with the later level.
C7_LaterLevelPersisted ==
  (lastOp.op = "commit" /\ Running = "log") =>
    \A u \in UserIds :
      laterLevel[u] # None =>
        \E r \in db.users : r.user_id = u /\ r.level = laterLevel[u]

\* -------------------------------------------------------------------- C8
\* C8 as stated: discovery under a root that does not exist fails with
\* PathNotFound.
C8_MissingRootFails ==
  (cur # "unbound" /\ pc \notin {"connect", "cursor", "discover"} /\ ~rootExists[Running])
    => raised = "PathNotFound" /\ pc = "fatal"

\* C8 amended: discovery under a root that does not exist ends like discovery
\* under a root without .json files: zero files, nothing raised.
C8_MissingRootIsEmpty ==
  (cur # "unbound" /\ pc \notin {"connect", "cursor", "discover"} /\ ~rootExists[Running])
    => num_files = 0 /\ raised = None /\ pc \in {"return", "completed"}

\* the song root does not exist and its process_data call is about to return
C8_Witness ==
  /\ ~rootExists["song"]
  /\ Running = "song"
  /\ pc = "return"
  /\ num_files = 0

C10_SongsBeforeLogs ==
  /\ (Discovered("log") \/ lastOp.op = "select" \/ WriteTo({"time", "users", "songplays"}))
       => Finished("song")
  /\ WriteTo({"songs", "artists"}) => ~Discovered("log")
  /\ (pc = "return" /\ Running = "song")
       => commits = num_files /\ i = num_files /\ tx = db /\ ~txAborted

\* a lookup of the log call has found a committed song
C10_Witness ==
  /\ lastOp.op = "select"
  /\ results # NoResult
  /\ db.songs # {}

====
